---- MODULE Spec2Model ----
(***************************************************************************)
(* Q&A board (src/script.js): a Firestore-backed list of questions with    *)
(* answers, rendered into one DOM list.  The file holds two IIFEs with the *)
(* same code (lines 1-666 and 669-1589); both run when the script loads,   *)
(* each with its own currentUser / unsubscribeQuestions closure variables, *)
(* over the same DOM elements and the same store.                          *)
(***************************************************************************)
EXTENDS Integers, Sequences, FiniteSets, TLC

VARIABLES
    questions,             \* store: the documents of collection 'questions'
    answers,               \* store: the documents of collection 'answers'
    clock,                 \* store: server time, one tick per created document
    authUser,              \* identity provider: the signed-in user, or NoUser
    authFired,             \* onAuthStateChanged has delivered its first state
    currentUser,           \* per IIFE: let currentUser
    unsubscribeQuestions,  \* per IIFE: let unsubscribeQuestions (listener id, 0 = null)
    listeners,             \* store: the live onSnapshot listeners
    refreshes,             \* snapshot callbacks whose loadAnswers calls are in
                           \* flight, in the order the callbacks ran
    display,               \* DOM: #question-list and #empty-state
    askForm,               \* DOM: the fields of #ask-form
    keyword,               \* DOM: #search-input value
    sort,                  \* DOM: #sort-select value
    ops,                   \* saveQuestion / deleteQuestion / addAnswer calls in flight
    nev,                   \* user and auth events so far
    nfault,                \* store calls rejected so far
    dialogs,               \* alert() and confirm() dialogs shown by the last step
    call                   \* a call of filterByKeyword / applySort on its own: the
                           \* arrays on the heap, the arguments and the returned array

vars == <<questions, answers, clock, authUser, authFired, currentUser,
          unsubscribeQuestions, listeners, refreshes, display,
          askForm, keyword, sort, ops, nev, nfault, dialogs, call>>

\* the page: everything but the function call looked at on its own
page == <<questions, answers, clock, authUser, authFired, currentUser,
          unsubscribeQuestions, listeners, refreshes, display,
          askForm, keyword, sort, ops, nev, nfault, dialogs>>

-----------------------------------------------------------------------------
(* Bounds *)

MaxEvents == 3       \* user and auth events in one behaviour
MaxDocs == 3         \* documents ever created in the store, the seed included
MaxFaults == 1       \* store calls rejected in one behaviour
MaxRefresh == 2      \* snapshot callbacks with loadAnswers calls in flight at once

-----------------------------------------------------------------------------
(* Values *)

Inst == {1, 2}                      \* the two IIFEs, in load order
Users == {"u1", "u2"}
NoUser == "null"
NoText == <<>>

\* user.displayName || user.email || ''  (u2 has neither)
DisplayName(u) == IF u = "u1" THEN <<"a">> ELSE NoText

\* what the user may type into a text field
AskInputs ==
    { [title |-> <<" ", "B", " ">>, body |-> <<"a">>],
      [title |-> <<" ">>, body |-> <<"b">>],
      [title |-> <<"a">>, body |-> NoText] }
AnswerInputs ==
    { [author |-> <<"a">>, body |-> <<"b">>],
      [author |-> <<" ">>, body |-> <<"b">>],
      [author |-> <<"a">>, body |-> <<" ">>] }
Keywords == { NoText, <<"B">>, <<"x">> }
SortModes == { "newest", "oldest", "mostAnswers" }

\* error.message of the errors the code throws or receives
ErrLogin == "login required"        \* new Error('로그인이 필요합니다.')
ErrOwner == "not the author"        \* new Error('자신이 작성한 질문만 삭제할 수 있습니다.')
ErrStore == "store error"           \* a rejected Firestore call
ErrType == "TypeError"              \* currentUser.uid / .displayName on null

\* the confirm() dialog of onDeleteQuestion, and the alert() texts of the handlers
ConfirmDelete == [by |-> "delete", msg |-> "confirm"]
NeedLoginAsk == [by |-> "create", msg |-> "needLogin"]
NeedLoginAnswer == [by |-> "answer", msg |-> "needLogin"]
\* faulty variant: the handler has no catch; the runtime reports the rejection
Failed_Uncaught(by, msg) == [by |-> "unhandledrejection", msg |-> msg]

\* catch (error) { alert('... 실패했습니다: ' + error.message) }
Failed(by, msg) == [by |-> by, msg |-> msg]

-----------------------------------------------------------------------------
(* Strings: a string is a sequence of one-character strings *)

IsSpace(c) == c = " "

RECURSIVE TrimStart(_)
TrimStart(s) ==
    IF s = <<>> THEN s
    ELSE IF IsSpace(Head(s)) THEN TrimStart(Tail(s)) ELSE s

RECURSIVE TrimEnd(_)
TrimEnd(s) ==
    IF s = <<>> THEN s
    ELSE IF IsSpace(s[Len(s)]) THEN TrimEnd(SubSeq(s, 1, Len(s) - 1)) ELSE s

\* String.prototype.trim
Trim(s) == TrimEnd(TrimStart(s))

LowerChar(c) ==
    CASE c = "A" -> "a"
      [] c = "B" -> "b"
      [] c = "X" -> "x"
      [] OTHER -> c

\* String.prototype.toLowerCase
ToLowerCase(s) == [k \in 1..Len(s) |-> LowerChar(s[k])]

\* String.prototype.includes
Includes(s, sub) ==
    \E k \in 0..(Len(s) - Len(sub)) : SubSeq(s, k + 1, k + Len(sub)) = sub

\* !value of a string: only the empty string is falsy
Falsy(s) == s = NoText

-----------------------------------------------------------------------------
(* The store: queries *)

Max(S) == CHOOSE x \in S : \A y \in S : y <= x
Min(S) == CHOOSE x \in S : \A y \in S : x <= y

\* the documents of S as a sequence, by createdAt (ascending or descending)
RECURSIVE OrderByCreatedAt(_, _)
OrderByCreatedAt(S, desc) ==
    IF S = {} THEN <<>>
    ELSE LET ts == {d.createdAt : d \in S}
             t == IF desc THEN Max(ts) ELSE Min(ts)
             d == CHOOSE x \in S : x.createdAt = t
         IN <<d>> \o OrderByCreatedAt(S \ {d}, desc)

\* query(collection(db,'questions'), orderBy('createdAt','desc'))
QuestionsSnapshot == OrderByCreatedAt(questions, TRUE)

\* query(collection(db,'questions'), where('__name__','==',questionId))
QuestionDocs(questionId) == {d \in questions : d.id = questionId}

\* query(collection(db,'answers'), where('questionId','==',questionId))
AnswerDocs(questionId) == {a \in answers : a.questionId = questionId}

\* every live listener of the questions query is notified of a change
Notify(ls) == {[l EXCEPT !.dirty = TRUE] : l \in ls}

-----------------------------------------------------------------------------
(* Filter, sort, render *)

byNewest(a, b) == b.createdAt - a.createdAt
\* faulty variant: the operands are the wrong way round
byOldest_Swapped(a, b) == b.createdAt - a.createdAt

byOldest(a, b) == a.createdAt - b.createdAt
\* q.answerCount || 0
AnswerCountOr0(q) == IF "answerCount" \in DOMAIN q THEN q.answerCount ELSE 0

byMostAnswers(a, b) == AnswerCountOr0(b) - AnswerCountOr0(a)

Compare(mode, a, b) ==
    IF mode = "oldest" THEN byOldest(a, b)
    ELSE IF mode = "mostAnswers" THEN byMostAnswers(a, b)
    ELSE byNewest(a, b)

\* faulty variant: x goes before the elements it compares equal to
InsertSorted_BeforeEqual(s, x, mode) ==
    LET later == {k \in 1..Len(s) : Compare(mode, s[k], x) >= 0}
        at == IF later = {} THEN Len(s) + 1 ELSE Min(later)
    IN SubSeq(s, 1, at - 1) \o <<x>> \o SubSeq(s, at, Len(s))

\* x goes before the first element that must come after it
InsertSorted(s, x, mode) ==
    LET later == {k \in 1..Len(s) : Compare(mode, s[k], x) > 0}
        at == IF later = {} THEN Len(s) + 1 ELSE Min(later)
    IN SubSeq(s, 1, at - 1) \o <<x>> \o SubSeq(s, at, Len(s))

\* faulty variant: a sort that is not stable (selection sort, swapping)
RECURSIVE StableSort_Unstable(_, _)
StableSort_Unstable(s, mode) ==
    IF Len(s) <= 1 THEN s
    ELSE LET first == {k \in 1..Len(s) :
                          \A j \in 1..Len(s) : Compare(mode, s[k], s[j]) <= 0}
             m == Min(first)
             swapped == [s EXCEPT ![1] = s[m], ![m] = s[1]]
         IN <<swapped[1]>> \o StableSort_Unstable(Tail(swapped), mode)

\* Array.prototype.sort: a stable sort
RECURSIVE StableSort(_, _)
StableSort(s, mode) ==
    IF s = <<>> THEN s
    ELSE InsertSorted(StableSort(SubSeq(s, 1, Len(s) - 1), mode), s[Len(s)], mode)

applySort(qs, mode) == StableSort(qs, mode)

\* faulty variant: the fields are compared as written, without toLowerCase()
Matches_CaseSensitive(q, kw) ==
    \/ Includes(q.title, kw)
    \/ Includes(q.body, kw)
    \/ Includes(q.author, kw)

\* q.title.toLowerCase().includes(keyword) || ... body ... || ... author ...
Matches(q, kw) ==
    \/ Includes(ToLowerCase(q.title), kw)
    \/ Includes(ToLowerCase(q.body), kw)
    \/ Includes(ToLowerCase(q.author), kw)

filterByKeyword(qs, kw) ==
    IF Falsy(kw) THEN qs ELSE SelectSeq(qs, LAMBDA q : Matches(q, kw))

\* faulty variant: the list is not emptied before the new items are added
ListAfterClear_Kept(items) == items

\* questionList.innerHTML = ''
ListAfterClear(items) == <<>>

\* renderQuestions(questions), run by IIFE i; stale: a callback that ran later
\* than this one has rendered already
renderQuestions(i, stale, qs, err) ==
    LET kw == ToLowerCase(Trim(keyword))
        filteredQuestions == applySort(filterByKeyword(qs, kw), sort)
    IN [ stale |-> stale,
         by |-> i,                           \* whose listeners the items carry
         user |-> currentUser[i],            \* delete button: q.authorId = user
         items |-> ListAfterClear(display.items) \o filteredQuestions,
         err |-> err,                        \* questions whose loadAnswers failed
         emptyHidden |-> filteredQuestions # <<>> ]

-----------------------------------------------------------------------------
(* filterByKeyword and applySort called on their own, over arrays on the heap *)

MaxList == 3         \* questions in the array given to filterByKeyword / applySort

\* a question as renderQuestions receives it; n < 0: no answerCount field
Sample(id, title, body, author, createdAt, n) ==
    IF n < 0
    THEN [id |-> id, title |-> title, body |-> body, author |-> author,
          createdAt |-> createdAt]
    ELSE [id |-> id, title |-> title, body |-> body, author |-> author,
          createdAt |-> createdAt, answerCount |-> n]

SampleQuestions ==
    { Sample(1, <<"A", "b">>, <<"c">>, <<"d">>, 1, 2),
      Sample(2, <<"x">>, <<"a", "B">>, <<"d">>, 2, 0),
      Sample(3, <<"x">>, <<"c">>, <<"A", "B">>, 3, 2),
      Sample(4, <<"x">>, <<"c">>, <<"d">>, 3, -1) }

\* the arrays of at most MaxList different questions
QuestionLists ==
    { qs \in UNION { [1..n -> SampleQuestions] : n \in 0..MaxList } :
         \A j, k \in 1..Len(qs) : j # k => qs[j] # qs[k] }

\* what the user may type into #search-input
TypedKeywords ==
    { NoText, <<" ">>, <<"a", "B">>, <<"A", "B">>, <<"B">>, <<"d">>, <<"y">> }

\* the values of sort given to applySort
Modes == SortModes \cup { "other" }

NoCall == [fn |-> "none", arrays |-> <<>>, ret |-> 0, ret2 |-> 0,
           typed |-> NoText, keyword |-> NoText, sort |-> "newest",
           str |-> NoText, html |-> NoText]

\* filterByKeyword(questions, keyword) with questions the array ref of heap h:
\* the array itself when keyword is '', else a new array made by filter()
filterByKeywordCall(h, ref, kw) ==
    IF Falsy(kw)
    THEN [arrays |-> h, ret |-> ref]
    ELSE [arrays |-> Append(h, filterByKeyword(h[ref], kw)), ret |-> Len(h) + 1]

\* faulty variant: questions.sort(...) sorts the argument in place
SortTarget_InPlace(h, ref) == ref

\* const copy = [...questions]: the array that copy.sort(...) sorts in place
SortTarget(h, ref) == Len(h) + 1

\* applySort(questions, sort) with questions the array ref of heap h
applySortCall(h, ref, mode) ==
    LET copied == Append(h, h[ref])
        t == SortTarget(h, ref)
    IN [arrays |-> [copied EXCEPT ![t] = applySort(copied[t], mode)], ret |-> t]

\* const keyword = (searchInput?.value || '').trim().toLowerCase()
Normalised(typed) == ToLowerCase(Trim(typed))

\* filterByKeyword is called with the keyword renderQuestions makes of the input
FilterByKeyword(typed) ==
    /\ call.fn = "none"
    /\ LET r == filterByKeywordCall(call.arrays, 1, Normalised(typed))
       IN call' = [call EXCEPT !.fn = "filterByKeyword", !.arrays = r.arrays,
                               !.ret = r.ret, !.typed = typed,
                               !.keyword = Normalised(typed)]
    /\ UNCHANGED page

\* applySort is called
ApplySort(mode) ==
    /\ call.fn = "none"
    /\ LET r == applySortCall(call.arrays, 1, mode)
       IN call' = [call EXCEPT !.fn = "applySort", !.arrays = r.arrays,
                               !.ret = r.ret, !.sort = mode]
    /\ UNCHANGED page

\* applySort(filterByKeyword(questions, keyword), sort) as renderQuestions
\* calls them (ret), and the two calls the other way round (ret2)
FilterAndSort(typed, mode) ==
    /\ call.fn = "none"
    /\ LET kw == Normalised(typed)
           f == filterByKeywordCall(call.arrays, 1, kw)
           fs == applySortCall(f.arrays, f.ret, mode)
           sf == applySortCall(fs.arrays, 1, mode)
           sff == filterByKeywordCall(sf.arrays, sf.ret, kw)
       IN call' = [call EXCEPT !.fn = "both", !.arrays = sff.arrays,
                               !.ret = fs.ret, !.ret2 = sff.ret, !.typed = typed,
                               !.keyword = kw, !.sort = mode]
    /\ UNCHANGED page

\* applySort(questions, 'newest') (ret) and applySort(questions, 'oldest')
\* (ret2) of the same array
SortBothWays ==
    /\ call.fn = "none"
    /\ LET n == applySortCall(call.arrays, 1, "newest")
           o == applySortCall(n.arrays, 1, "oldest")
       IN call' = [call EXCEPT !.fn = "bothWays", !.arrays = o.arrays,
                               !.ret = n.ret, !.ret2 = o.ret]
    /\ UNCHANGED page

-----------------------------------------------------------------------------
(* escapeHTML, and the markup renderQuestions builds with it *)

MaxText == 3         \* characters in the author text given to escapeHTML

\* the characters a user may put into the author field
Chars == { "&", "<", ">", "\"", "a", ";" }

Texts == UNION { [1..n -> Chars] : n \in 0..MaxText }

\* faulty variant: the ampersand is not in the character class
EscapeChar_NoAmp(c) ==
    CASE c = "<" -> <<"&", "l", "t", ";">>
      [] c = ">" -> <<"&", "g", "t", ";">>
      [] c = "\"" -> <<"&", "q", "u", "o", "t", ";">>
      [] OTHER -> <<c>>

\* /[&<>"]/g with { '&': '&amp;', '<': '&lt;', '>': '&gt;', '"': '&quot;' }[c]
EscapeChar(c) ==
    CASE c = "&" -> <<"&", "a", "m", "p", ";">>
      [] c = "<" -> <<"&", "l", "t", ";">>
      [] c = ">" -> <<"&", "g", "t", ";">>
      [] c = "\"" -> <<"&", "q", "u", "o", "t", ";">>
      [] OTHER -> <<c>>

\* String(str).replace(/[&<>"]/g, ...)
RECURSIVE escapeHTML(_)
escapeHTML(str) ==
    IF str = <<>> THEN <<>>
    ELSE EscapeChar(Head(str)) \o escapeHTML(Tail(str))

\* the tags around the author in stats.innerHTML
MetaOpen == <<"<", "s", "p", "a", "n", ">">>
MetaClose == <<"<", "/", "s", "p", "a", "n", ">">>

\* stats.innerHTML = `<span ...>작성자 ${escapeHTML(q.author)} ...</span>`
StatsHTML(author) == MetaOpen \o escapeHTML(author) \o MetaClose

\* renderQuestions builds the stats markup of a question whose author is str
RenderStats(str) ==
    /\ call.fn = "none"
    /\ call' = [call EXCEPT !.fn = "escapeHTML", !.str = str,
                            !.html = StatsHTML(str)]
    /\ UNCHANGED page

-----------------------------------------------------------------------------
(* subscribeToQuestions and the snapshot callback *)

\* a handle no live listener and no closure variable holds
FreeListenerId(ls, held) ==
    Min({n \in 1..(Cardinality(ls) + Cardinality(held) + 1) :
            n \notin held /\ \A l \in ls : l.id # n})

\* the previous listener of IIFE i is cancelled before the new one is added
Unsubscribed(i, c) ==
    IF c.unsub[i] # 0 THEN {l \in c.listeners : l.id # c.unsub[i]} ELSE c.listeners

\* subscribeToQuestions() of IIFE i; onSnapshot delivers a first snapshot later
subscribeToQuestions(i, c) ==
    LET kept == Unsubscribed(i, c)
        id == FreeListenerId(kept, {c.unsub[j] : j \in Inst \ {i}})
    IN [c EXCEPT !.listeners = kept \cup {[id |-> id, inst |-> i, dirty |-> TRUE]},
                 !.unsub = [c.unsub EXCEPT ![i] = id]]

\* faulty variant: answerCount is the field stored in the question document
WithAnswers_StoredCount(d, as) ==
    [id |-> d.id, author |-> d.author, title |-> d.title, body |-> d.body,
     authorId |-> d.authorId, createdAt |-> d.createdAt,
     answers |-> as, answerCount |-> d.answerCount]

\* { id: doc.id, ...data, answers: answers, answerCount: answers.length }
WithAnswers(d, as) ==
    [id |-> d.id, author |-> d.author, title |-> d.title, body |-> d.body,
     authorId |-> d.authorId, createdAt |-> d.createdAt,
     answers |-> as, answerCount |-> Len(as)]

\* loadAnswers(questionId): the sorted answers, or [] when the query fails
loadAnswers(questionId, ok) ==
    IF ok THEN OrderByCreatedAt(AnswerDocs(questionId), FALSE) ELSE <<>>

\* faulty variant: a question whose loadAnswers failed is left out of the update
questionsWithAnswers_DropFailed(r) ==
    SelectSeq([k \in 1..Len(r.docs) |-> WithAnswers(r.docs[k], r.got[r.docs[k].id])],
              LAMBDA x : x.id \notin r.err)

\* Promise.all(loadAnswersPromises) of the callback r
questionsWithAnswers(r) ==
    [k \in 1..Len(r.docs) |-> WithAnswers(r.docs[k], r.got[r.docs[k].id])]

Remove(seq, k) == SubSeq(seq, 1, k - 1) \o SubSeq(seq, k + 1, Len(seq))

\* the callbacks before position k ran earlier than the one that renders now
Overtaken(seq, k) ==
    [j \in 1..Len(seq) |-> IF j < k THEN [seq[j] EXCEPT !.late = TRUE] ELSE seq[j]]

\* the callback given to onSnapshot runs for listener l
Snapshot(l) ==
    /\ l \in listeners
    /\ l.dirty
    /\ Len(refreshes) < MaxRefresh
    /\ listeners' = (listeners \ {l}) \cup {[l EXCEPT !.dirty = FALSE]}
    /\ LET docs == QuestionsSnapshot
           ids == {docs[k].id : k \in 1..Len(docs)}
           r == [inst |-> l.inst, docs |-> docs, pend |-> ids,
                 got |-> [q \in ids |-> <<>>], err |-> {}, late |-> FALSE]
       IN IF docs = <<>>
          THEN /\ display' = renderQuestions(l.inst, FALSE, <<>>, {})
               /\ refreshes' = Overtaken(refreshes, Len(refreshes) + 1)
          ELSE /\ refreshes' = Append(refreshes, r)
               /\ UNCHANGED display
    /\ dialogs' = <<>>
    /\ UNCHANGED <<questions, answers, clock, authUser, authFired, currentUser,
                   unsubscribeQuestions, askForm, keyword, sort, ops, nev, nfault>>
    /\ UNCHANGED call

\* a store call settles: resolved (ok) or rejected
Settle(ok) ==
    /\ ok \/ nfault < MaxFaults
    /\ nfault' = IF ok THEN nfault ELSE nfault + 1

\* loadQuestions(): the documents of the query with answerCount defaulted, or
\* [] when getDocs is rejected
loadQuestions(ok) ==
    IF ok
    THEN [k \in 1..Len(QuestionsSnapshot) |-> QuestionsSnapshot[k]]
    ELSE <<>>

\* the error callback given to onSnapshot runs for listener l: the store has
\* ended the listener, and the callback writes to the console only
SnapshotError(l) ==
    /\ l \in listeners
    /\ Settle(FALSE)
    /\ listeners' = listeners \ {l}
    /\ dialogs' = <<>>
    /\ UNCHANGED <<questions, answers, clock, authUser, authFired, currentUser,
                   unsubscribeQuestions, refreshes, display, askForm, keyword,
                   sort, ops, nev>>
    /\ UNCHANGED call

\* one loadAnswers(doc.id) of the k-th callback in flight resolves; the last
\* one of a callback renders
LoadAnswersDone(k, q, ok) ==
    /\ k \in 1..Len(refreshes)
    /\ q \in refreshes[k].pend
    /\ Settle(ok)
    /\ LET r == refreshes[k]
           r2 == [r EXCEPT !.pend = @ \ {q},
                           !.got[q] = loadAnswers(q, ok),
                           !.err = IF ok THEN @ ELSE @ \cup {q}]
       IN IF r2.pend = {}
          THEN /\ display' = renderQuestions(r.inst, r.late, questionsWithAnswers(r2), r2.err)
               /\ refreshes' = Remove(Overtaken(refreshes, k), k)
          ELSE /\ refreshes' = [refreshes EXCEPT ![k] = r2]
               /\ UNCHANGED display
    /\ dialogs' = <<>>
    /\ UNCHANGED <<questions, answers, clock, authUser, authFired, currentUser,
                   unsubscribeQuestions, listeners, askForm, keyword, sort,
                   ops, nev>>
    /\ UNCHANGED call

-----------------------------------------------------------------------------
(* Calls in flight *)

NoData == [author |-> NoText, title |-> NoText, body |-> NoText, authorId |-> NoUser]

\* a call of saveQuestion, deleteQuestion or addAnswer waiting at an await
Op(kind, i, pc, q, data) ==
    [kind |-> kind, inst |-> i, ev |-> nev + 1, pc |-> pc, q |-> q, data |-> data,
     snap |-> {}, pend |-> {}, failed |-> FALSE, cnt |-> 0]

Alert(c, a) == [c EXCEPT !.dialogs = Append(@, a)]
Await(c, o) == [c EXCEPT !.ops = @ \cup {o}]

\* faulty variant: the sign-in guard is missing
NotSignedIn_NoGuard(u) == FALSE

\* if (!currentUser)
NotSignedIn(u) == u = NoUser

\* faulty variant: the value is tested without trim()
IsBlank_NoTrim(s) == Falsy(s)

\* const x = input.value.trim(); if (!x) return
IsBlank(s) == Falsy(Trim(s))

\* faulty variant: the answer of confirm() is ignored
Declined_Ignored(ok) == FALSE

\* const ok = confirm(...); if (!ok) return
Declined(ok) == ~ok

-----------------------------------------------------------------------------
(* Handlers, up to their first await *)

\* saveQuestion(questionData) up to await addDoc
saveQuestion(i, questionData, c) ==
    IF NotSignedIn(currentUser[i])
    THEN Alert(c, Failed("create", ErrLogin))
    ELSE Await(c, Op("create", i, "addDoc", 0,
                     [questionData EXCEPT !.authorId = currentUser[i]]))

\* onCreateQuestion(e), the submit listener of #ask-form
onCreateQuestion(i, form, c) ==
    IF NotSignedIn(currentUser[i])
    THEN Alert(c, NeedLoginAsk)
    ELSE LET author == Trim(form.author)
             title == Trim(form.title)
             body == Trim(form.body)
         IN IF IsBlank(form.author) \/ IsBlank(form.title) \/ IsBlank(form.body)
            THEN c
            ELSE saveQuestion(i, [author |-> author, title |-> title, body |-> body,
                                  authorId |-> NoUser], c)

\* deleteQuestion(questionId) up to the first await getDocs
deleteQuestion(i, questionId, c) ==
    IF NotSignedIn(currentUser[i])
    THEN Alert(c, Failed("delete", ErrLogin))
    ELSE Await(c, Op("delete", i, "getQuestion", questionId, NoData))

\* onDeleteQuestion(id), the click listener of a delete button
onDeleteQuestion(i, id, ok, c) ==
    LET asked == Alert(c, ConfirmDelete)
    IN IF Declined(ok) THEN asked ELSE deleteQuestion(i, id, asked)

\* addAnswer(questionId, answerData) up to await addDoc
addAnswer(i, questionId, answerData, c) ==
    IF NotSignedIn(currentUser[i])
    THEN Alert(c, Failed("answer", ErrLogin))
    ELSE Await(c, Op("answer", i, "addDoc", questionId,
                     [answerData EXCEPT !.authorId = currentUser[i]]))

\* the submit listener of an answer form made by createAnswerForm(questionId)
onSubmitAnswer(i, questionId, a, b, c) ==
    IF NotSignedIn(currentUser[i])
    THEN Alert(c, NeedLoginAnswer)
    ELSE IF IsBlank(a) \/ IsBlank(b)
         THEN c
         ELSE addAnswer(i, questionId,
                        [author |-> Trim(a), title |-> NoText, body |-> Trim(b),
                         authorId |-> NoUser], c)

-----------------------------------------------------------------------------
(* Events: the DOM and the identity provider call every registered listener *)

Ctx == [ops |-> ops, dialogs |-> <<>>, listeners |-> listeners,
        unsub |-> unsubscribeQuestions]

CreatesInFlight(os) == Cardinality({o \in os : o.pc = "addDoc"})

Commit(c) ==
    /\ clock + CreatesInFlight(c.ops) <= MaxDocs
    /\ ops' = c.ops
    /\ dialogs' = c.dialogs
    /\ listeners' = c.listeners
    /\ unsubscribeQuestions' = c.unsub
    /\ nev' = nev + 1
    /\ UNCHANGED nfault

\* updateAuthUI(user): the author field follows the signed-in user
updateAuthUI(user) ==
    [askForm EXCEPT !.author = IF user # NoUser THEN DisplayName(user) ELSE NoText]

\* onAuthStateChanged: both IIFEs registered a callback in init()
AuthChange(u) ==
    /\ nev < MaxEvents
    /\ ~authFired \/ u # authUser
    /\ authUser' = u
    /\ authFired' = TRUE
    /\ currentUser' = [i \in Inst |-> u]
    /\ askForm' = updateAuthUI(u)
    /\ Commit(subscribeToQuestions(2, subscribeToQuestions(1, Ctx)))
    /\ UNCHANGED <<questions, answers, clock, refreshes, display, keyword, sort>>
    /\ UNCHANGED call

\* the user fills in #ask-form and submits it: both IIFEs listen
SubmitAsk(inp) ==
    /\ nev < MaxEvents
    /\ LET form == [askForm EXCEPT !.title = inp.title, !.body = inp.body]
       IN /\ askForm' = form
          /\ Commit(onCreateQuestion(2, form, onCreateQuestion(1, form, Ctx)))
    /\ UNCHANGED <<questions, answers, clock, authUser, authFired, currentUser,
                   refreshes, display, keyword, sort>>
    /\ UNCHANGED call

Shown(q) == \E k \in 1..Len(display.items) : display.items[k].id = q
Item(q) == display.items[CHOOSE k \in 1..Len(display.items) : display.items[k].id = q]

\* renderQuestions adds the delete button for the author's own questions
HasDeleteButton(q) ==
    /\ Shown(q)
    /\ display.user # NoUser
    /\ Item(q).authorId = display.user

\* the user clicks a rendered delete button and answers the confirm() dialog
ClickDelete(q, ok) ==
    /\ nev < MaxEvents
    /\ HasDeleteButton(q)
    /\ Commit(onDeleteQuestion(display.by, q, ok, Ctx))
    /\ UNCHANGED <<questions, answers, clock, authUser, authFired, currentUser,
                   refreshes, display, askForm, keyword, sort>>
    /\ UNCHANGED call

\* createAnswerForm: the author field was filled in and made read-only if a
\* user was signed in at render time
AnswerAuthor(inp) ==
    IF display.user # NoUser THEN DisplayName(display.user) ELSE inp.author

\* the user submits the answer form of a rendered question
SubmitAnswer(q, inp) ==
    /\ nev < MaxEvents
    /\ Shown(q)
    /\ Commit(onSubmitAnswer(display.by, q, AnswerAuthor(inp), inp.body, Ctx))
    /\ UNCHANGED <<questions, answers, clock, authUser, authFired, currentUser,
                   refreshes, display, askForm, keyword, sort>>
    /\ UNCHANGED call

\* input event of #search-input: both IIFEs resubscribe
SearchInput(k) ==
    /\ nev < MaxEvents
    /\ k # keyword
    /\ keyword' = k
    /\ Commit(subscribeToQuestions(2, subscribeToQuestions(1, Ctx)))
    /\ UNCHANGED <<questions, answers, clock, authUser, authFired, currentUser,
                   refreshes, display, askForm, sort>>
    /\ UNCHANGED call

\* change event of #sort-select: both IIFEs resubscribe
SortChange(m) ==
    /\ nev < MaxEvents
    /\ m # sort
    /\ sort' = m
    /\ Commit(subscribeToQuestions(2, subscribeToQuestions(1, Ctx)))
    /\ UNCHANGED <<questions, answers, clock, authUser, authFired, currentUser,
                   refreshes, display, askForm, keyword>>
    /\ UNCHANGED call

-----------------------------------------------------------------------------
(* Store calls resolve: ok = FALSE is a rejected call *)

\* saveQuestion: await addDoc(questionsRef, ...) settles; onCreateQuestion resumes
saveQuestion_addDoc(o, ok) ==
    /\ o \in ops /\ o.kind = "create" /\ o.pc = "addDoc"
    /\ Settle(ok)
    /\ ops' = ops \ {o}
    /\ IF ok
       THEN /\ clock' = clock + 1
            /\ questions' = questions \cup
                   {[id |-> clock + 1, author |-> o.data.author, title |-> o.data.title,
                     body |-> o.data.body, authorId |-> o.data.authorId,
                     createdAt |-> clock + 1, answerCount |-> 0]}
            /\ listeners' = Notify(listeners)
            \* askForm.reset(); askAuthorInput.value = currentUser.displayName || ...
            /\ IF currentUser[o.inst] = NoUser
               THEN /\ askForm' = [author |-> NoText, title |-> NoText, body |-> NoText]
                    /\ dialogs' = <<Failed("create", ErrType)>>
               ELSE /\ askForm' = [author |-> DisplayName(currentUser[o.inst]),
                                   title |-> NoText, body |-> NoText]
                    /\ dialogs' = <<>>
       ELSE /\ dialogs' = <<Failed("create", ErrStore)>>
            /\ UNCHANGED <<questions, clock, listeners, askForm>>
    /\ UNCHANGED <<answers, authUser, authFired, currentUser, unsubscribeQuestions,
                   refreshes, display, keyword, sort, nev>>
    /\ UNCHANGED call

\* faulty variant: the ownership check is missing
NotAuthor_NoCheck(questionData, user) == FALSE

\* questionData.authorId !== currentUser.uid
NotAuthor(questionData, user) == questionData.authorId # user

\* deleteQuestion: the ownership query settles
deleteQuestion_getQuestion(o, ok) ==
    /\ o \in ops /\ o.kind = "delete" /\ o.pc = "getQuestion"
    /\ Settle(ok)
    /\ LET questionDoc == QuestionDocs(o.q)
           questionData == CHOOSE d \in questionDoc : TRUE
           user == currentUser[o.inst]
           err == IF ~ok THEN ErrStore
                  ELSE IF questionDoc = {} THEN "none"
                  ELSE IF user = NoUser THEN ErrType
                  ELSE IF NotAuthor(questionData, user) THEN ErrOwner
                  ELSE "none"
       IN IF err # "none"
          THEN /\ ops' = ops \ {o}
               /\ dialogs' = <<Failed("delete", err)>>
          ELSE /\ ops' = (ops \ {o}) \cup {[o EXCEPT !.pc = "getAnswers"]}
               /\ dialogs' = <<>>
    /\ UNCHANGED <<questions, answers, clock, authUser, authFired, currentUser,
                   unsubscribeQuestions, listeners, refreshes, display,
                   askForm, keyword, sort, nev>>
    /\ UNCHANGED call

\* deleteQuestion: the answers query settles; one deleteDoc per answer is issued
deleteQuestion_getAnswers(o, ok) ==
    /\ o \in ops /\ o.kind = "delete" /\ o.pc = "getAnswers"
    /\ Settle(ok)
    /\ LET ids == {a.id : a \in AnswerDocs(o.q)}
       IN IF ~ok
          THEN /\ ops' = ops \ {o}
               /\ dialogs' = <<Failed("delete", ErrStore)>>
          ELSE /\ ops' = (ops \ {o}) \cup
                     {[o EXCEPT !.snap = ids, !.pend = ids,
                                !.pc = IF ids = {} THEN "deleteQuestion"
                                       ELSE "deleteAnswers"]}
               /\ dialogs' = <<>>
    /\ UNCHANGED <<questions, answers, clock, authUser, authFired, currentUser,
                   unsubscribeQuestions, listeners, refreshes, display,
                   askForm, keyword, sort, nev>>
    /\ UNCHANGED call

\* faulty variant: the call waits for every deleteDoc and goes on whatever they returned
AfterAnswerDelete_AllSettled(o, a, ok) ==
    LET left == o.pend \ {a}
    IN [o EXCEPT !.pend = left, !.failed = o.failed \/ ~ok,
                 !.pc = IF left = {} THEN "deleteQuestion" ELSE "deleteAnswers"]

\* await Promise.all(deletePromises): where the call stands once the deleteDoc
\* of one answer has settled.  The first rejection rejects Promise.all; the
\* other deleteDoc calls stay in flight.
AfterAnswerDelete(o, a, ok) ==
    LET left == o.pend \ {a}
        failed == o.failed \/ ~ok
    IN [o EXCEPT !.pend = left, !.failed = failed,
                 !.pc = IF left = {} /\ ~failed THEN "deleteQuestion"
                        ELSE "deleteAnswers"]

\* deleteQuestion: deleteDoc(doc.ref) of one answer settles
deleteQuestion_deleteAnswer(o, a, ok) ==
    /\ o \in ops /\ o.kind = "delete" /\ o.pc = "deleteAnswers"
    /\ a \in o.pend
    /\ Settle(ok)
    /\ answers' = IF ok THEN {x \in answers : x.id # a} ELSE answers
    /\ dialogs' = IF ~ok /\ ~o.failed THEN <<Failed("delete", ErrStore)>> ELSE <<>>
    /\ LET o2 == AfterAnswerDelete(o, a, ok)
       IN ops' = IF o2.pend = {} /\ o2.pc = "deleteAnswers"
                 THEN ops \ {o}
                 ELSE (ops \ {o}) \cup {o2}
    /\ UNCHANGED <<questions, clock, authUser, authFired, currentUser,
                   unsubscribeQuestions, listeners, refreshes, display,
                   askForm, keyword, sort, nev>>
    /\ UNCHANGED call

\* deleteQuestion: await deleteDoc(questionRef) settles
deleteQuestion_deleteDoc(o, ok) ==
    /\ o \in ops /\ o.kind = "delete" /\ o.pc = "deleteQuestion"
    /\ Settle(ok)
    /\ ops' = ops \ {o}
    /\ IF ok
       THEN /\ questions' = {d \in questions : d.id # o.q}
            /\ listeners' = IF questions' # questions THEN Notify(listeners)
                            ELSE listeners
            /\ dialogs' = <<>>
       ELSE /\ dialogs' = <<Failed("delete", ErrStore)>>
            /\ UNCHANGED <<questions, listeners>>
    /\ UNCHANGED <<answers, clock, authUser, authFired, currentUser,
                   unsubscribeQuestions, refreshes, display, askForm,
                   keyword, sort, nev>>
    /\ UNCHANGED call

\* addAnswer: await addDoc(answersRef, newAnswer) settles
addAnswer_addDoc(o, ok) ==
    /\ o \in ops /\ o.kind = "answer" /\ o.pc = "addDoc"
    /\ Settle(ok)
    /\ IF ok
       THEN /\ clock' = clock + 1
            /\ answers' = answers \cup
                   {[id |-> clock + 1, questionId |-> o.q, author |-> o.data.author,
                     body |-> o.data.body, authorId |-> o.data.authorId,
                     createdAt |-> clock + 1]}
            /\ ops' = (ops \ {o}) \cup {[o EXCEPT !.pc = "getQuestion"]}
            /\ dialogs' = <<>>
       ELSE /\ ops' = ops \ {o}
            /\ dialogs' = <<Failed("answer", ErrStore)>>
            /\ UNCHANGED <<answers, clock>>
    /\ UNCHANGED <<questions, authUser, authFired, currentUser, unsubscribeQuestions,
                   listeners, refreshes, display, askForm, keyword, sort, nev>>
    /\ UNCHANGED call

\* addAnswer: the query for the question's answerCount settles
addAnswer_getQuestion(o, ok) ==
    /\ o \in ops /\ o.kind = "answer" /\ o.pc = "getQuestion"
    /\ Settle(ok)
    /\ LET questionDoc == QuestionDocs(o.q)
           questionData == CHOOSE d \in questionDoc : TRUE
           c == [ops |-> ops \ {o}, dialogs |-> <<>>, listeners |-> listeners,
                 unsub |-> unsubscribeQuestions]
           c2 == IF ~ok THEN Alert(c, Failed("answer", ErrStore))
                 ELSE IF questionDoc # {}
                 THEN Await(c, [o EXCEPT !.pc = "updateDoc",
                                         !.cnt = questionData.answerCount])
                 ELSE subscribeToQuestions(o.inst, c)
       IN /\ ops' = c2.ops
          /\ dialogs' = c2.dialogs
          /\ listeners' = c2.listeners
          /\ unsubscribeQuestions' = c2.unsub
    /\ UNCHANGED <<questions, answers, clock, authUser, authFired, currentUser,
                   refreshes, display, askForm, keyword, sort, nev>>
    /\ UNCHANGED call

\* faulty variant: the document is written whole, as setDoc would
UpdatedDoc_Replaced(d, cnt) ==
    [d EXCEPT !.answerCount = cnt + 1, !.title = NoText, !.createdAt = clock]

\* updateDoc(questionRef, { answerCount: currentAnswerCount + 1 })
UpdatedDoc(d, cnt) == [d EXCEPT !.answerCount = cnt + 1]

\* addAnswer: await updateDoc(questionRef, {answerCount: n + 1}) settles;
\* updateDoc of a document that no longer exists is rejected
addAnswer_updateDoc(o, ok) ==
    /\ o \in ops /\ o.kind = "answer" /\ o.pc = "updateDoc"
    /\ Settle(ok)
    /\ ops' = ops \ {o}
    /\ IF ok /\ QuestionDocs(o.q) # {}
       THEN LET c == subscribeToQuestions(o.inst,
                        [ops |-> ops, dialogs |-> <<>>,
                         listeners |-> Notify(listeners),
                         unsub |-> unsubscribeQuestions])
            IN /\ questions' = {IF d.id = o.q
                                THEN UpdatedDoc(d, o.cnt)
                                ELSE d : d \in questions}
               /\ listeners' = c.listeners
               /\ unsubscribeQuestions' = c.unsub
               /\ dialogs' = <<>>
       ELSE /\ dialogs' = <<Failed("answer", ErrStore)>>
            /\ UNCHANGED <<questions, listeners, unsubscribeQuestions>>
    /\ UNCHANGED <<answers, clock, authUser, authFired, currentUser, refreshes,
                   display, askForm, keyword, sort, nev>>
    /\ UNCHANGED call

-----------------------------------------------------------------------------
(* The specification *)

SeedQuestion(n) ==
    [id |-> 1, author |-> <<"a">>, title |-> <<"B">>, body |-> <<"b">>,
     authorId |-> "u1", createdAt |-> 1, answerCount |-> n]
SeedAnswer ==
    [id |-> 2, questionId |-> 1, author |-> <<"a">>, body |-> <<"b">>,
     authorId |-> "u1", createdAt |-> 2]

\* what the store may hold when the page loads
Seeds ==
    { [questions |-> {}, answers |-> {}, clock |-> 0],
      [questions |-> {SeedQuestion(1)}, answers |-> {SeedAnswer}, clock |-> 2] }

\* the page once the script has run, over the store s
Loaded(s) ==
    /\ questions = s.questions
    /\ answers = s.answers
    /\ clock = s.clock
    /\ authUser = NoUser
    /\ authFired = FALSE
    /\ currentUser = [i \in Inst |-> NoUser]
    /\ unsubscribeQuestions = [i \in Inst |-> 0]
    /\ listeners = {}
    /\ refreshes = <<>>
    /\ display = [stale |-> FALSE, by |-> 1, user |-> NoUser, items |-> <<>>, err |-> {},
                  emptyHidden |-> TRUE]
    /\ askForm = [author |-> NoText, title |-> NoText, body |-> NoText]
    /\ keyword = NoText
    /\ sort = "newest"
    /\ ops = {}
    /\ nev = 0
    /\ nfault = 0
    /\ dialogs = <<>>

Init ==
    /\ \E s \in Seeds : Loaded(s)
    /\ call = NoCall

Next ==
    \/ \E u \in Users \cup {NoUser} : AuthChange(u)
    \/ \E inp \in AskInputs : SubmitAsk(inp)
    \/ \E q \in 1..MaxDocs, ok \in BOOLEAN : ClickDelete(q, ok)
    \/ \E q \in 1..MaxDocs, inp \in AnswerInputs : SubmitAnswer(q, inp)
    \/ \E k \in Keywords : SearchInput(k)
    \/ \E m \in SortModes : SortChange(m)
    \/ \E l \in listeners : Snapshot(l)
    \/ \E l \in listeners : SnapshotError(l)
    \/ \E k \in 1..Len(refreshes), q \in 1..MaxDocs, ok \in BOOLEAN :
          LoadAnswersDone(k, q, ok)
    \/ \E o \in ops, ok \in BOOLEAN : saveQuestion_addDoc(o, ok)
    \/ \E o \in ops, ok \in BOOLEAN : deleteQuestion_getQuestion(o, ok)
    \/ \E o \in ops, ok \in BOOLEAN : deleteQuestion_getAnswers(o, ok)
    \/ \E o \in ops, a \in 1..MaxDocs, ok \in BOOLEAN :
          deleteQuestion_deleteAnswer(o, a, ok)
    \/ \E o \in ops, ok \in BOOLEAN : deleteQuestion_deleteDoc(o, ok)
    \/ \E o \in ops, ok \in BOOLEAN : addAnswer_addDoc(o, ok)
    \/ \E o \in ops, ok \in BOOLEAN : addAnswer_getQuestion(o, ok)
    \/ \E o \in ops, ok \in BOOLEAN : addAnswer_updateDoc(o, ok)

Spec == Init /\ [][Next]_vars

\* the page over a store that holds one question without answers
InitUnanswered ==
    /\ Loaded([questions |-> {SeedQuestion(0)}, answers |-> {}, clock |-> 1])
    /\ call = NoCall

SpecUnanswered == InitUnanswered /\ [][Next]_vars

\* filterByKeyword and applySort on their own: any array of sample questions
InitCalls ==
    /\ Loaded([questions |-> {}, answers |-> {}, clock |-> 0])
    /\ \E qs \in QuestionLists : call = [NoCall EXCEPT !.arrays = <<qs>>]

NextCalls ==
    \/ \E typed \in TypedKeywords : FilterByKeyword(typed)
    \/ \E mode \in Modes : ApplySort(mode)
    \/ \E typed \in TypedKeywords, mode \in Modes : FilterAndSort(typed, mode)
    \/ SortBothWays
    \/ \E str \in Texts : RenderStats(str)

SpecCalls == InitCalls /\ [][NextCalls]_vars

-----------------------------------------------------------------------------
(* Properties *)

Store == <<questions, answers, clock>>

\* C1: cascade delete.  Once deleteQuestion(id) has completed, no answer in the
\* store has questionId = id: every answer references a question that exists.
C1_CascadeDelete ==
    \A a \in answers : QuestionDocs(a.questionId) # {}

\* C2: refreshes never render out of order.  No render comes from a snapshot
\* callback that ran before the callback of a render already shown.
C2_RendersInOrder == ~display.stale

\* C3: at most one live subscription to the questions collection is active.
C3_OneSubscription == Cardinality(listeners) <= 1

\* C4: deleteQuestion by a signed-in user who is not the question's author
\* fails with the permission error and deletes nothing; the call ends there.
C4_NonOwnerDeleteDenied ==
    [][\A o \in ops :
         ( /\ deleteQuestion_getQuestion(o, TRUE)
           /\ currentUser[o.inst] # NoUser
           /\ \E d \in QuestionDocs(o.q) : d.authorId # currentUser[o.inst] )
         => /\ dialogs' = <<Failed("delete", ErrOwner)>>
            /\ questions' = questions
            /\ answers' = answers
            /\ ops' = ops \ {o}]_vars

C4_Witness ==
    /\ dialogs = <<Failed("delete", ErrOwner)>>
    /\ \E d \in questions : d.authorId # currentUser[1]

\* C5: with no user signed in, create question, create answer and delete
\* question each end in the sign-in error and issue no store call.
C5_NotAuthenticated ==
    [][ /\ ( (\A i \in Inst : currentUser[i] = NoUser)
             /\ \E inp \in AskInputs : SubmitAsk(inp) )
           => /\ ops' = ops
              /\ UNCHANGED Store
              /\ dialogs' = <<NeedLoginAsk, NeedLoginAsk>>
        /\ ( currentUser[display.by] = NoUser
             /\ \E q \in 1..MaxDocs : ClickDelete(q, TRUE) )
           => /\ ops' = ops
              /\ UNCHANGED Store
              /\ dialogs' = <<ConfirmDelete, Failed("delete", ErrLogin)>>
        /\ ( currentUser[display.by] = NoUser
             /\ \E q \in 1..MaxDocs, inp \in AnswerInputs : SubmitAnswer(q, inp) )
           => /\ ops' = ops
              /\ UNCHANGED Store
              /\ dialogs' = <<NeedLoginAnswer>> ]_vars

C5_Witness ==
    /\ dialogs = <<ConfirmDelete, Failed("delete", ErrLogin)>>
    /\ currentUser[display.by] = NoUser

\* C6: a create-question submission with a blank author, title or body, and a
\* create-answer submission with a blank author or body, issue no store call.
C6_BlankAborts ==
    [][ /\ \A inp \in AskInputs :
             ( /\ SubmitAsk(inp)
               /\ \/ Trim(askForm.author) = NoText
                  \/ Trim(inp.title) = NoText
                  \/ Trim(inp.body) = NoText )
             => (ops' = ops /\ UNCHANGED Store)
        /\ \A q \in 1..MaxDocs, inp \in AnswerInputs :
             ( /\ SubmitAnswer(q, inp)
               /\ \/ Trim(AnswerAuthor(inp)) = NoText
                  \/ Trim(inp.body) = NoText )
             => (ops' = ops /\ UNCHANGED Store) ]_vars

C6_Witness ==
    /\ \A i \in Inst : currentUser[i] = "u1"
    /\ askForm.author # NoText
    /\ askForm.title = <<" ">>
    /\ ops = {}
    /\ questions = {}

\* a deleteQuestion call reaches deleteDoc(questionRef) only with every answer it
\* read deleted, and never after one of its store calls was rejected
C7_Ordered ==
    \A o \in ops : o.kind = "delete" =>
        /\ o.failed => o.pc = "deleteAnswers"
        /\ o.pc = "deleteQuestion" =>
              /\ o.pend = {}
              /\ \A a \in answers : a.id \notin o.snap

\* a rejected answers query or answer deletion is reported and deletes no
\* question; a question is deleted only by a call none of whose steps failed
C7_Steps ==
    /\ \A o \in ops :
         /\ deleteQuestion_getAnswers(o, FALSE)
            => /\ dialogs' = <<Failed("delete", ErrStore)>>
               /\ questions' = questions
               /\ ops' = ops \ {o}
         /\ \A a \in o.pend :
              deleteQuestion_deleteAnswer(o, a, FALSE)
              => /\ questions' = questions
                 /\ ~o.failed => dialogs' = <<Failed("delete", ErrStore)>>
                 /\ \A p \in ops' \ ops : p.failed /\ p.pc = "deleteAnswers"
    /\ \A d \in questions \ questions' :
         (\A e \in questions' : e.id # d.id)
         => \E o \in ops \ ops' :
               /\ o.kind = "delete" /\ o.q = d.id
               /\ o.pc = "deleteQuestion" /\ ~o.failed

\* C7: deleteQuestion deletes the answers before the question, and a failed
\* answers query or answer deletion is reported and ends the call before the
\* question is deleted.
C7_AnswersBeforeQuestion == [](C7_Ordered) /\ [][C7_Steps]_vars

C7_Witness ==
    \E o \in ops :
        /\ o.kind = "delete" /\ o.failed /\ o.pend # {}
        /\ QuestionDocs(o.q) # {}
        /\ dialogs = <<Failed("delete", ErrStore)>>

SeqIds(seq) == {seq[k].id : k \in 1..Len(seq)}

\* what a settled loadAnswers call of a snapshot callback does to the list
C8_Steps ==
    /\ \A k \in 1..Len(refreshes) : \A q \in refreshes[k].pend : \A ok \in BOOLEAN :
         LoadAnswersDone(k, q, ok) =>
            LET r == refreshes[k]
                failed == r.err \cup (IF ok THEN {} ELSE {q})
                kw == ToLowerCase(Trim(keyword))
            IN IF r.pend = {q}
               THEN /\ SeqIds(display'.items) =
                          {r.docs[j].id : j \in {j \in 1..Len(r.docs) :
                                                   kw = NoText \/ Matches(r.docs[j], kw)}}
                    /\ \A j \in 1..Len(display'.items) :
                          display'.items[j].id \in failed
                          => /\ display'.items[j].answers = <<>>
                             /\ display'.items[j].answerCount = 0
                    /\ display'.err = failed
               ELSE display' = display
    /\ display' # display
       => \/ questions = {}
          \/ \E k \in 1..Len(refreshes) :
                /\ Cardinality(refreshes[k].pend) = 1
                /\ Len(refreshes') = Len(refreshes) - 1

\* C8: a snapshot callback renders once, when the last of its loadAnswers calls
\* has settled; every question of the snapshot that passes the keyword filter
\* is rendered, and one whose loadAnswers failed is rendered with no answers.
C8_RenderWithFallback == [][C8_Steps]_vars

C8_Witness ==
    \E j \in 1..Len(display.items) :
        /\ display.items[j].id \in display.err
        /\ display.items[j].answers = <<>>
        /\ AnswerDocs(display.items[j].id) # {}

Cleared(form) == form.title = NoText /\ form.body = NoText

\* C9: create question ends in one of two outcomes.  A failed persist shows an
\* error, adds no question and leaves the form filled in; a persist that
\* succeeded clears the form.
C9_CreateOutcomes ==
    [][\A o \in ops :
         /\ saveQuestion_addDoc(o, FALSE)
            => /\ dialogs' = <<Failed("create", ErrStore)>>
               /\ questions' = questions
               /\ ~Cleared(askForm')
         /\ saveQuestion_addDoc(o, TRUE) => Cleared(askForm')]_vars

\* C10: a declined confirm() dialog issues no store call.
C10_DeclinedDelete ==
    [][\A q \in 1..MaxDocs :
         ClickDelete(q, FALSE)
         => /\ ops' = ops
            /\ UNCHANGED Store
            /\ dialogs' = <<ConfirmDelete>>]_vars

C10_Witness ==
    /\ dialogs = <<ConfirmDelete>>
    /\ currentUser[display.by] # NoUser
    /\ ops = {}

\* the result of loadQuestions is empty only when the collection is empty
C11_EmptyOnlyIfNoData ==
    \A ok \in BOOLEAN : loadQuestions(ok) = <<>> => questions = {}

\* C11: a failed read of the questions collection is reported to the user.
\* loadQuestions returns the empty sequence only when the collection holds no
\* data, and a listener ended by a read error shows a failure message.
C11_ReadFailureReported ==
    [](C11_EmptyOnlyIfNoData)
    /\ [][\A l \in listeners : SnapshotError(l) => dialogs' # <<>>]_vars

\* a store call of the action o is rejected
Rejected(o) ==
    \/ saveQuestion_addDoc(o, FALSE)
    \/ deleteQuestion_getQuestion(o, FALSE)
    \/ deleteQuestion_getAnswers(o, FALSE)
    \/ \E a \in o.pend : deleteQuestion_deleteAnswer(o, a, FALSE)
    \/ deleteQuestion_deleteDoc(o, FALSE)
    \/ addAnswer_addDoc(o, FALSE)
    \/ addAnswer_getQuestion(o, FALSE)
    \/ addAnswer_updateDoc(o, FALSE)

\* C12: a store error raised during a create-question, delete-question or
\* create-answer action is shown to the user by the action's handler, and the
\* action ends there: it issues no further store call and is not retried.
C12_ErrorsCaughtAtHandler ==
    [][\A o \in ops :
         Rejected(o)
         => /\ ~o.failed => dialogs' = <<[by |-> o.kind, msg |-> ErrStore]>>
            /\ \A p \in ops' \ ops : p.failed /\ p.pend # {}
            /\ ops' \ {p \in ops' : p.failed} \subseteq ops \ {o}
            /\ UNCHANGED Store]_vars

C12_Witness ==
    /\ dialogs = <<Failed("answer", ErrStore)>>
    /\ nfault = 1
    /\ \E a \in answers : a.createdAt = clock

-----------------------------------------------------------------------------
(* Properties of filterByKeyword and applySort *)

\* the array given to the call, and the array it returned
Input == call.arrays[1]
Output == call.arrays[call.ret]

\* where x stands in the array s of different elements
IndexOf(s, x) == CHOOSE k \in 1..Len(s) : s[k] = x

\* r holds elements of s, each once, in the order they have in s
InOrderOf(r, s) ==
    /\ \A k \in 1..Len(r) : \E j \in 1..Len(s) : s[j] = r[k]
    /\ \A j, k \in 1..Len(r) : j < k => IndexOf(s, r[j]) < IndexOf(s, r[k])

\* sub occurs in s, letters compared without regard to case
ContainsIgnoringCase(s, sub) ==
    \E k \in 0..(Len(s) - Len(sub)) :
        \A j \in 1..Len(sub) : LowerChar(s[k + j]) = LowerChar(sub[j])

MentionsKeyword(q, k) ==
    \/ ContainsIgnoringCase(q.title, k)
    \/ ContainsIgnoringCase(q.body, k)
    \/ ContainsIgnoringCase(q.author, k)

\* C13: filterByKeyword returns, in input order, exactly the questions whose
\* title, body or author contains the search keyword whatever the case of the
\* letters; for an empty or blank keyword it returns the input unchanged.
C13_FilterByKeyword ==
    call.fn = "filterByKeyword" =>
        LET k == Trim(call.typed)
        IN IF k = NoText
           THEN Output = Input
           ELSE /\ InOrderOf(Output, Input)
                /\ \A j \in 1..Len(Input) :
                      MentionsKeyword(Input[j], k)
                      <=> \E n \in 1..Len(Output) : Output[n] = Input[j]

C13_Witness ==
    /\ call.fn = "filterByKeyword"
    /\ call.typed = <<"A", "B">>
    /\ Len(Input) = 3
    /\ Len(Output) = 2
    /\ Output[1].id = 3

\* the array returned by the calls made in the other order
Output2 == call.arrays[call.ret2]

\* C14: filtering commutes with sorting.  filterByKeyword of the sorted array
\* equals applySort of the filtered array, for every keyword and sort mode.
C14_FilterCommutesWithSort ==
    call.fn = "both" => Output2 = Output

C14_Witness ==
    /\ call.fn = "both"
    /\ call.sort = "mostAnswers"
    /\ Len(Input) = 3
    /\ Len(Output) = 2
    /\ Output[1] = Input[3]
    /\ AnswerCountOr0(Input[1]) = AnswerCountOr0(Input[2])

\* r holds the elements of s, each once
PermutationOf(r, s) ==
    /\ Len(r) = Len(s)
    /\ \A k \in 1..Len(s) : \E j \in 1..Len(r) : r[j] = s[k]

Reverse(s) == [k \in 1..Len(s) |-> s[Len(s) + 1 - k]]

DistinctTimestamps(s) ==
    \A j, k \in 1..Len(s) : j # k => s[j].createdAt # s[k].createdAt

\* C15: on questions with different creation timestamps, applySort by 'oldest'
\* is the reverse of applySort by 'newest'; 'newest' gives descending and
\* 'oldest' ascending creation time, and any other mode sorts as 'newest'.
C15_OldestReversesNewest ==
    DistinctTimestamps(Input) =>
        /\ call.fn = "bothWays" => Output2 = Reverse(Output)
        /\ call.fn = "applySort" /\ call.sort \in {"newest", "oldest", "other"} =>
              /\ PermutationOf(Output, Input)
              /\ \A j, k \in 1..Len(Output) :
                    j < k => IF call.sort = "oldest"
                             THEN Output[j].createdAt < Output[k].createdAt
                             ELSE Output[j].createdAt > Output[k].createdAt

C15_Witness ==
    /\ call.fn = "bothWays"
    /\ DistinctTimestamps(Input)
    /\ Len(Input) = 3
    /\ Output # Input
    /\ Output2 # Input

\* the number of answers sorted by: 0 for a question with no answerCount
CountOf(q) == IF "answerCount" \in DOMAIN q THEN q.answerCount ELSE 0

\* C16: applySort by 'mostAnswers' returns a permutation of its input in
\* non-increasing answer count, a missing count being 0, and keeps the input
\* order of questions with equal counts.
C16_MostAnswersStable ==
    call.fn = "applySort" /\ call.sort = "mostAnswers" =>
        /\ PermutationOf(Output, Input)
        /\ \A j, k \in 1..Len(Output) :
              j < k => CountOf(Output[j]) >= CountOf(Output[k])
        /\ \A j, k \in 1..Len(Input) :
              j < k /\ CountOf(Input[j]) = CountOf(Input[k])
              => IndexOf(Output, Input[j]) < IndexOf(Output, Input[k])

C16_Witness ==
    /\ call.fn = "applySort"
    /\ call.sort = "mostAnswers"
    /\ Len(Input) = 3
    /\ "answerCount" \notin DOMAIN Input[1]
    /\ CountOf(Input[2]) = 2
    /\ CountOf(Input[3]) = 2
    /\ Output = <<Input[2], Input[3], Input[1]>>

\* C17: applySort never mutates its input.  After the call the array it was
\* given holds the same elements in the same order, and the array returned is
\* another array.
C17_ApplySortKeepsInput ==
    [][\A mode \in Modes :
         ApplySort(mode)
         => /\ \A ref \in 1..Len(call.arrays) : call'.arrays[ref] = call.arrays[ref]
            /\ call'.ret \notin 1..Len(call.arrays)]_vars

C17_Witness ==
    /\ call.fn = "applySort"
    /\ call.sort = "oldest"
    /\ call.ret = 2
    /\ Len(Input) = 3
    /\ Output = Reverse(Input)

\* the list renderQuestions is to show for the questions qs
Expected(qs) == applySort(filterByKeyword(qs, ToLowerCase(Trim(keyword))), sort)

\* C18: after every call of renderQuestions the list shown is exactly
\* applySort(filterByKeyword(questions, keyword), sort) for the keyword and sort
\* mode of that moment, nothing of an earlier render is left, and the
\* empty-state element is visible exactly when that list is empty.
C18_DisplayIsSortedFilter ==
    [][ /\ \A l \in listeners :
             Snapshot(l) /\ QuestionsSnapshot = <<>>
             => display'.items = <<>> /\ ~display'.emptyHidden
        /\ \A k \in 1..Len(refreshes) : \A q \in refreshes[k].pend : \A ok \in BOOLEAN :
             LoadAnswersDone(k, q, ok) /\ refreshes[k].pend = {q}
             => LET r == refreshes[k]
                    got == [r.got EXCEPT ![q] = loadAnswers(q, ok)]
                    qs == [j \in 1..Len(r.docs) |->
                              WithAnswers(r.docs[j], got[r.docs[j].id])]
                IN /\ display'.items = Expected(qs)
                   /\ display'.emptyHidden <=> Expected(qs) # <<>> ]_vars

C18_Witness ==
    /\ display.items = <<>>
    /\ ~display.emptyHidden
    /\ questions # {}
    /\ keyword = <<"x">>
    /\ refreshes = <<>>

\* C19: the answer count shown and sorted by is computed from the answers
\* fetched: every question rendered has answerCount = the length of its answers
\* list, whatever the answerCount field of its document holds.
C19_CountFromFetchedAnswers ==
    \A j \in 1..Len(display.items) :
        display.items[j].answerCount = Len(display.items[j].answers)

C19_Witness ==
    \E j \in 1..Len(display.items) :
        /\ display.items[j].answerCount = 2
        /\ Len(display.items[j].answers) = 2
        /\ \E d \in questions : d.id = display.items[j].id /\ d.answerCount = 1

\* the fields of a question that are fixed when it is created
Fixed(d) == <<d.id, d.title, d.body, d.author, d.authorId, d.createdAt>>

\* C20: a question's id, title, body, author, authorId and createdAt never
\* change and a stored answer never changes; addAnswer changes only the
\* answerCount of its question; documents leave the store only through
\* deleteQuestion.
C20_RecordsImmutable ==
    [][ /\ \A d \in questions :
             IF \E e \in questions' : e.id = d.id
             THEN \A e \in questions' : e.id = d.id => Fixed(e) = Fixed(d)
             ELSE \E o \in ops : o.q = d.id /\ deleteQuestion_deleteDoc(o, TRUE)
        /\ \A a \in answers :
             \/ a \in answers'
             \/ /\ \A b \in answers' : b.id # a.id
                /\ \E o \in ops : /\ o.q = a.questionId
                                  /\ deleteQuestion_deleteAnswer(o, a.id, TRUE)
        /\ \A o \in ops :
             addAnswer_updateDoc(o, TRUE)
             => /\ answers' = answers
                /\ \A d \in questions :
                      d.id # o.q => d \in questions'
                /\ \A e \in questions' :
                      e.id = o.q => \E d \in questions :
                                       e = [d EXCEPT !.answerCount = e.answerCount]
        /\ \A o \in ops :
             addAnswer_addDoc(o, TRUE) \/ addAnswer_getQuestion(o, TRUE)
             => questions' = questions /\ answers \subseteq answers' ]_vars

C20_Witness ==
    \E d \in questions :
        /\ d = [SeedQuestion(1) EXCEPT !.answerCount = 2]
        /\ Cardinality(AnswerDocs(d.id)) = 2
        /\ SeedAnswer \in answers

\* s begins with the characters of p
StartsWith(s, p) == Len(s) >= Len(p) /\ SubSeq(s, 1, Len(p)) = p

Entities ==
    { [ent |-> <<"&", "a", "m", "p", ";">>, char |-> "&"],
      [ent |-> <<"&", "l", "t", ";">>, char |-> "<"],
      [ent |-> <<"&", "g", "t", ";">>, char |-> ">"],
      [ent |-> <<"&", "q", "u", "o", "t", ";">>, char |-> "\""] }

\* s with each of the four entities read back as its character
RECURSIVE Unescaped(_)
Unescaped(s) ==
    IF s = <<>> THEN <<>>
    ELSE IF \E e \in Entities : StartsWith(s, e.ent)
         THEN LET e == CHOOSE x \in Entities : StartsWith(s, x.ent)
              IN <<e.char>> \o Unescaped(SubSeq(s, Len(e.ent) + 1, Len(s)))
         ELSE <<Head(s)>> \o Unescaped(Tail(s))

\* the part of the stats markup between the tags
Escaped == SubSeq(call.html, Len(MetaOpen) + 1, Len(call.html) - Len(MetaClose))

\* C21: escapeHTML replaces every &, <, > and " by its entity and leaves the
\* other characters as they are: the text put into the markup for the author
\* holds no raw <, > or ", every & in it begins one of the four entities, and
\* reading the entities back gives the author text.
C21_EscapeHTML ==
    call.fn = "escapeHTML" =>
        /\ StartsWith(call.html, MetaOpen)
        /\ SubSeq(call.html, Len(call.html) - Len(MetaClose) + 1, Len(call.html))
              = MetaClose
        /\ \A k \in 1..Len(Escaped) :
              /\ Escaped[k] \notin {"<", ">", "\""}
              /\ Escaped[k] = "&" =>
                    \E e \in Entities :
                        StartsWith(SubSeq(Escaped, k, Len(Escaped)), e.ent)
        /\ Unescaped(Escaped) = call.str
        /\ Len(Escaped) = Len(call.str)
              + 4 * Cardinality({k \in 1..Len(call.str) : call.str[k] = "&"})
              + 3 * Cardinality({k \in 1..Len(call.str) : call.str[k] \in {"<", ">"}})
              + 5 * Cardinality({k \in 1..Len(call.str) : call.str[k] = "\""})

C21_Witness ==
    /\ call.fn = "escapeHTML"
    /\ call.str = <<"<", "&", "\"">>
    /\ Len(call.html) = Len(MetaOpen) + 15 + Len(MetaClose)

\* an addAnswer or deleteQuestion call is in progress
Writing == \E o \in ops : o.kind \in {"answer", "delete"}

\* C22: whenever no addAnswer or deleteQuestion call is in progress, the stored
\* answerCount of each question is the number of answers with its id, also
\* after addAnswer calls on one question that ran concurrently.  Stated for
\* behaviours in which no store call was rejected.
C22_CountMatchesAnswers ==
    ~Writing /\ nfault = 0 =>
        \A d \in questions : d.answerCount = Cardinality(AnswerDocs(d.id))

\* every store call and answer fetch has completed and no snapshot is due
Quiescent ==
    /\ authFired
    /\ ops = {}
    /\ refreshes = <<>>
    /\ \A l \in listeners : ~l.dirty

\* the store's questions, newest first, each with its answers of now
CurrentQuestions ==
    [k \in 1..Len(QuestionsSnapshot) |->
        WithAnswers(QuestionsSnapshot[k],
                    OrderByCreatedAt(AnswerDocs(QuestionsSnapshot[k].id), FALSE))]

\* C23: the view converges.  Once every pending store call and answer fetch
\* has completed, the list shown is applySort(filterByKeyword(Q, keyword), sort)
\* for the store's questions Q with their answers and the keyword and sort mode
\* of now; nothing changes it until the next event.  Stated for behaviours in
\* which no store call was rejected.
C23_ViewConverges ==
    Quiescent /\ nfault = 0 => display.items = Expected(CurrentQuestions)

\* the ask form as submitted with the typed title and body
Submitted(inp) == [askForm EXCEPT !.title = inp.title, !.body = inp.body]

\* a submission onCreateQuestion lets through: signed in, no blank field
ValidSubmission(inp) ==
    /\ authUser # NoUser
    /\ \A i \in Inst : currentUser[i] = authUser
    /\ ~IsBlank(Submitted(inp).author)
    /\ ~IsBlank(Submitted(inp).title)
    /\ ~IsBlank(Submitted(inp).body)

\* the addDoc calls to the questions collection a step has issued
IssuedAddDocs == {o \in ops' \ ops : o.kind = "create" /\ o.pc = "addDoc"}

\* C24: one valid submission of the ask form by a signed-in user issues one
\* addDoc to the questions collection, carrying the submitting user's uid, and
\* each addDoc that resolves adds one Question record with that authorId and
\* answerCount 0: a single submit handler persists a submission.
C24_OneQuestionPerSubmission ==
    [][/\ \A inp \in AskInputs :
            SubmitAsk(inp) /\ ValidSubmission(inp)
            => /\ Cardinality(IssuedAddDocs) = 1
               /\ \A o \in IssuedAddDocs : o.data.authorId = authUser
       /\ \A o \in ops :
            saveQuestion_addDoc(o, TRUE)
            => /\ Cardinality(questions' \ questions) = 1
               /\ questions \subseteq questions'
               /\ \A d \in questions' \ questions :
                    d.authorId = o.data.authorId /\ d.answerCount = 0]_vars

====
